---- MODULE Spec2Model ----
(***************************************************************************)
(* Model of HistoryCache (apps/predbat/history_cache.py): an in-memory,    *)
(* time-windowed cache of entity history in front of a fetch function.     *)
(*                                                                         *)
(* Python values are records [kind, lc, items]: None, a str, a dict with   *)
(* its "last_changed" value, or a list of values.  A datetime is the       *)
(* integer instant it denotes (all parsed datetimes are offset-aware, so   *)
(* they are mutually comparable); Optional[datetime] uses None.            *)
(***************************************************************************)
EXTENDS Integers, Sequences, FiniteSets, TLC

\* ---------------------------------------------------------------- bounds
MaxLocal == 2
MaxBatch == 2
MaxStored == 3

\* ------------------------------------------------------------- constants
None == -1
DatetimeMin == -2

\* ISO strings carry a local hour 1..MaxLocal and a UTC offset of 0 or 1
\* hours; the instants they denote are 0..MaxLocal.
Locals == 1..MaxLocal
Offsets == {0, 1}
Times == 0..MaxLocal

\* ----------------------------------------------------------- Python data
\* The value stored under "last_changed": no such key, an unparseable
\* string, or an ISO-8601 string "<local>+<off>".
LcAbsent == [form |-> "absent", local |-> 0, off |-> 0]
LcGarbage == [form |-> "garbage", local |-> 0, off |-> 0]
LcIso(l, o) == [form |-> "iso", local |-> l, off |-> o]

PyNone == [kind |-> "none", lc |-> LcAbsent, items |-> << >>]
PyStr == [kind |-> "str", lc |-> LcAbsent, items |-> << >>]
PyDict(l) == [kind |-> "dict", lc |-> l, items |-> << >>]
PyList(s) == [kind |-> "list", lc |-> LcAbsent, items |-> s]

Truthy(v) == CASE v.kind = "none" -> FALSE
               [] v.kind = "list" -> Len(v.items) > 0
               [] OTHER -> TRUE

\* datetime.fromisoformat: the instant of "<local>+<off>" is local - off;
\* an unparseable string raises ValueError.
fromisoformat(s) ==
    IF s.form = "iso"
    THEN [raised |-> FALSE, dt |-> s.local - s.off]
    ELSE [raised |-> TRUE, dt |-> None]

get_timestamp(item) ==
    IF item.kind # "dict" THEN None
    ELSE IF item.lc.form = "absent" THEN None
    ELSE LET r == fromisoformat(item.lc)
         IN IF r.raised THEN None ELSE r.dt

\* str.lower on the entity ids in use
Entities == {"Sensor.A", "sensor.a"}
lower(e) == IF e = "Sensor.A" THEN "sensor.a" ELSE e

\* ------------------------------------------------------------ list.sort
SortKey(x) == IF get_timestamp(x) = None THEN DatetimeMin ELSE get_timestamp(x)

RECURSIVE InsertByKey(_, _)
InsertByKey(s, x) ==
    IF s = << >> THEN << x >>
    ELSE IF SortKey(s[Len(s)]) <= SortKey(x) THEN Append(s, x)
    ELSE Append(InsertByKey(SubSeq(s, 1, Len(s) - 1), x), s[Len(s)])

SortListSkipped(s) == s

RECURSIVE SortList(_)
SortList(s) ==
    IF s = << >> THEN << >>
    ELSE InsertByKey(SortList(SubSeq(s, 1, Len(s) - 1)), s[Len(s)])

\* -------------------------------------------------- update_cache, 76-113
NormalizeNever(new_data) == new_data

Normalize(new_data) ==
    IF new_data.kind = "list" /\ Len(new_data.items) > 0
       /\ new_data.items[1].kind = "list"
    THEN new_data.items[1]
    ELSE new_data

ExistingTimestampsNone(existing_data) == {}

ExistingTimestamps(existing_data) ==
    { get_timestamp(existing_data[i]) :
        i \in { j \in 1..Len(existing_data) :
                  /\ existing_data[j].kind = "dict"
                  /\ get_timestamp(existing_data[j]) # None } }

\* the loop with latest_time set only while it is still None
RECURSIVE MergeLoopFirstOnly(_, _, _, _)
MergeLoopFirstOnly(items, existing_data, latest_time, existing_timestamps) ==
    IF items = << >> THEN [data |-> existing_data, latest |-> latest_time]
    ELSE LET item == Head(items)
             timestamp == get_timestamp(item)
         IN IF item.kind # "dict"
            THEN MergeLoopFirstOnly(Tail(items), existing_data, latest_time,
                                    existing_timestamps)
            ELSE IF timestamp # None /\ timestamp \notin existing_timestamps
            THEN MergeLoopFirstOnly(Tail(items), Append(existing_data, item),
                                    IF latest_time = None
                                    THEN timestamp ELSE latest_time,
                                    existing_timestamps)
            ELSE MergeLoopFirstOnly(Tail(items), existing_data, latest_time,
                                    existing_timestamps)

\* the loop without the comparison of line 108
RECURSIVE MergeLoopLastSeen(_, _, _, _)
MergeLoopLastSeen(items, existing_data, latest_time, existing_timestamps) ==
    IF items = << >> THEN [data |-> existing_data, latest |-> latest_time]
    ELSE LET item == Head(items)
             timestamp == get_timestamp(item)
         IN IF item.kind = "dict" /\ timestamp # None
               /\ timestamp \notin existing_timestamps
            THEN MergeLoopLastSeen(Tail(items), Append(existing_data, item),
                                   timestamp, existing_timestamps)
            ELSE MergeLoopLastSeen(Tail(items), existing_data, latest_time,
                                   existing_timestamps)

\* the loop without the test of the timestamp at line 106
RECURSIVE MergeLoopAnyDict(_, _, _, _)
MergeLoopAnyDict(items, existing_data, latest_time, existing_timestamps) ==
    IF items = << >> THEN [data |-> existing_data, latest |-> latest_time]
    ELSE LET item == Head(items)
             timestamp == get_timestamp(item)
         IN IF item.kind # "dict"
            THEN MergeLoopAnyDict(Tail(items), existing_data, latest_time,
                                  existing_timestamps)
            ELSE IF timestamp \notin existing_timestamps
            THEN MergeLoopAnyDict(Tail(items), Append(existing_data, item),
                                  IF latest_time = None \/ timestamp > latest_time
                                  THEN timestamp ELSE latest_time,
                                  existing_timestamps)
            ELSE MergeLoopAnyDict(Tail(items), existing_data, latest_time,
                                  existing_timestamps)

RECURSIVE MergeLoop(_, _, _, _)
MergeLoop(items, existing_data, latest_time, existing_timestamps) ==
    IF items = << >> THEN [data |-> existing_data, latest |-> latest_time]
    ELSE LET item == Head(items)
             timestamp == get_timestamp(item)
         IN IF item.kind # "dict"
            THEN MergeLoop(Tail(items), existing_data, latest_time,
                           existing_timestamps)
            ELSE IF timestamp # None /\ timestamp \notin existing_timestamps
            THEN MergeLoop(Tail(items), Append(existing_data, item),
                           IF latest_time = None \/ timestamp > latest_time
                           THEN timestamp ELSE latest_time,
                           existing_timestamps)
            ELSE MergeLoop(Tail(items), existing_data, latest_time,
                           existing_timestamps)

\* lines 92-113 on one cache entry
MergeEntry(cache_entry, new_data) ==
    LET m == MergeLoop(new_data.items, cache_entry.data, cache_entry.latest,
                       ExistingTimestamps(cache_entry.data))
    IN [data |-> SortList(m.data), latest |-> m.latest]

\* ----------------------------------------------------- get_or_fetch tail
\* the prune with ts <= start_time
RECURSIVE PruneInclusive(_, _)
PruneInclusive(data, start_time) ==
    IF data = << >> THEN data
    ELSE LET ts == get_timestamp(data[1])
         IN IF ts # None /\ ts <= start_time
            THEN PruneInclusive(Tail(data), start_time)
            ELSE data

RECURSIVE Prune(_, _)
Prune(data, start_time) ==
    IF data = << >> THEN data
    ELSE LET ts == get_timestamp(data[1])
         IN IF ts # None /\ ts < start_time
            THEN Prune(Tail(data), start_time)
            ELSE data

Keep(item, end_time) ==
    get_timestamp(item) # None /\ get_timestamp(item) <= end_time

FilterWindow(data, end_time) == SelectSeq(data, LAMBDA item : Keep(item, end_time))

\* ------------------------------------------------------------ the cache
VARIABLES cache_data, heap, enabled, cache_lock, th, last, feed
vars == << cache_data, heap, enabled, cache_lock, th, last, feed >>

NoRef == 0
NewRef(hp) == CHOOSE r \in 1..(Cardinality(DOMAIN hp) + 1) : r \notin DOMAIN hp

\* entry of a key present in the mapping
Entry(k) == heap[cache_data[k]]

\* lines 85-113: locate or create the entry, merge, sort, store latest
MergeInto(cd, hp, entity_id, new_data) ==
    LET entity_key == lower(entity_id)
        ref == IF entity_key \in DOMAIN cd THEN cd[entity_key] ELSE NewRef(hp)
        cd1 == IF entity_key \in DOMAIN cd THEN cd ELSE cd @@ (entity_key :> ref)
        hp1 == IF entity_key \in DOMAIN cd THEN hp
               ELSE hp @@ (ref :> [data |-> << >>, latest |-> None])
    IN [cd |-> cd1, hp |-> [hp1 EXCEPT ![ref] = MergeEntry(hp1[ref], new_data)]]

\* update_cache, lines 76-113
update_cache(cd, hp, en, entity_id, new_data) ==
    IF ~en \/ ~Truthy(new_data) THEN [cd |-> cd, hp |-> hp]
    ELSE MergeInto(cd, hp, entity_id, Normalize(new_data))

\* fetch_and_update with the entry created before fetch_func is called
fetch_and_update_eager(cd, hp, en, entity_id, outcome) ==
    LET c == MergeInto(cd, hp, entity_id, PyList(<< >>))
    IN IF outcome.raises
       THEN [cd |-> c.cd, hp |-> c.hp, raised |-> TRUE, new_data |-> PyNone]
       ELSE LET u == IF Truthy(outcome.data)
                     THEN update_cache(c.cd, c.hp, en, entity_id, outcome.data)
                     ELSE [cd |-> c.cd, hp |-> c.hp]
            IN [cd |-> u.cd, hp |-> u.hp, raised |-> FALSE,
                new_data |-> outcome.data]

\* fetch_and_update, lines 49-53; outcome is what fetch_func does
fetch_and_update(cd, hp, en, entity_id, outcome) ==
    IF outcome.raises
    THEN [cd |-> cd, hp |-> hp, raised |-> TRUE, new_data |-> PyNone]
    ELSE LET u == IF Truthy(outcome.data)
                  THEN update_cache(cd, hp, en, entity_id, outcome.data)
                  ELSE [cd |-> cd, hp |-> hp]
         IN [cd |-> u.cd, hp |-> u.hp, raised |-> FALSE, new_data |-> outcome.data]

FetchStartRequested(hp, cache_entry, start_time) == start_time

\* lines 56-60: the start of the window handed to fetch_func
FetchStart(hp, cache_entry, start_time) ==
    IF cache_entry = NoRef THEN start_time ELSE hp[cache_entry].latest

\* get_or_fetch without the check of line 41
get_or_fetch_unchecked(cd, hp, en, entity_id, start_time, end_time, minimal, outcome) ==
    LET f == fetch_and_update(cd, hp, TRUE, entity_id, outcome)
    IN [cd |-> f.cd, hp |-> f.hp, raised |-> f.raised, ret |-> f.new_data,
        calls |-> << << start_time, end_time, minimal >> >>]

\* get_or_fetch, lines 38-74
get_or_fetch(cd, hp, en, entity_id, start_time, end_time, minimal, outcome) ==
    IF ~en
    THEN [cd |-> cd, hp |-> hp, raised |-> outcome.raises,
          ret |-> IF outcome.raises THEN PyNone ELSE outcome.data,
          calls |-> << << start_time, end_time, minimal >> >>]
    ELSE LET entity_key == lower(entity_id)
             cache_entry == IF entity_key \in DOMAIN cd THEN cd[entity_key] ELSE NoRef
             f == fetch_and_update(cd, hp, en, entity_id, outcome)
             calls == << << FetchStart(hp, cache_entry, start_time), end_time,
                            minimal >> >>
         IN IF f.raised
            THEN [cd |-> f.cd, hp |-> f.hp, raised |-> TRUE, ret |-> PyNone,
                  calls |-> calls]
            ELSE IF cache_entry = NoRef
            THEN [cd |-> f.cd, hp |-> f.hp, raised |-> FALSE, ret |-> f.new_data,
                  calls |-> calls]
            ELSE LET data == Prune(f.hp[cache_entry].data, start_time)
                 IN [cd |-> f.cd,
                     hp |-> [f.hp EXCEPT ![cache_entry].data = data],
                     raised |-> FALSE,
                     ret |-> PyList(FilterWindow(data, end_time)),
                     calls |-> calls]

\* --------------------------------------------------------------- inputs
Records == { PyDict(LcIso(l, o)) : l \in Locals, o \in Offsets }
Malformed == { PyStr, PyDict(LcAbsent), PyDict(LcGarbage) }
Elements == Records \cup Malformed

\* number of values held, at any depth, by a list
RECURSIVE Size(_)
Size(v) ==
    IF v.kind # "list" \/ v.items = << >> THEN 0
    ELSE 1 + Size(Head(v.items)) + Size(PyList(Tail(v.items)))

Threads == { "t1", "t2" }
NoThread == "none"
\* a thread's place in the call it is making, and that call's locals
IdleThread == [pc |-> "idle", op |-> "none", entity_id |-> "",
               start_time |-> None, end_time |-> None, new_data |-> PyNone,
               gof_entry |-> NoRef, uc_entry |-> NoRef]

\* What the last completed call was given and what it gave back; stored is
\* the length of the entity's stored sequence when the call began,
\* fetched the number of values in the data handed to it, fetch_raised
\* whether fetch_func raised and raised whether the call did; for
\* update_cache, items is the length of the list it loops over and offered
\* the number of those items that have a timestamp.
NoCall == [op |-> "none", entity_id |-> "", start_time |-> None,
           end_time |-> None, minimal |-> FALSE,
           was_enabled |-> FALSE, warm |-> FALSE, raised |-> FALSE,
           ret |-> PyNone, calls |-> << >>, stored |-> 0, fetched |-> 0,
           fetch_raised |-> FALSE, items |-> 0, offered |-> 0]

WithTimestamp(items) == SelectSeq(items, LAMBDA x : get_timestamp(x) # None)

Stored(hp) ==
    LET RECURSIVE Sum(_)
        Sum(R) == IF R = {} THEN 0
                  ELSE LET r == CHOOSE x \in R : TRUE
                       IN Len(hp[r].data) + Sum(R \ {r})
    IN Sum(DOMAIN hp)

StoredLen(entity_id) ==
    IF lower(entity_id) \in DOMAIN cache_data
    THEN Len(Entry(lower(entity_id)).data) ELSE 0

\* __init__, lines 13-17
Init ==
    /\ cache_data = << >>
    /\ heap = << >>
    /\ enabled = FALSE
    /\ cache_lock = [owner |-> NoThread, count |-> 0]
    /\ th = [t \in Threads |-> IdleThread]
    /\ last = NoCall
    /\ feed = PyList(<< >>)

\* The data the next caller or fetch function hands over is put together
\* one element at a time.
FeedAppend(x) ==
    /\ feed.kind = "list"
    /\ Size(feed) < MaxBatch
    /\ feed' = PyList(Append(feed.items, x))
    /\ last' = NoCall
    /\ UNCHANGED << cache_data, heap, enabled, cache_lock, th >>

FeedWrap ==
    /\ feed.kind = "list"
    /\ Size(feed) < MaxBatch
    /\ feed' = PyList(<< feed >>)
    /\ last' = NoCall
    /\ UNCHANGED << cache_data, heap, enabled, cache_lock, th >>

FeedNone ==
    /\ feed = PyList(<< >>)
    /\ feed' = PyNone
    /\ last' = NoCall
    /\ UNCHANGED << cache_data, heap, enabled, cache_lock, th >>

\* configure without line 23
ConfigureKeeps(e) ==
    /\ enabled' = e
    /\ last' = [NoCall EXCEPT !.op = "configure", !.was_enabled = enabled,
                              !.stored = Stored(heap)]
    /\ UNCHANGED << cache_data, heap, cache_lock, th, feed >>

\* configure, lines 19-23
Configure(e) ==
    /\ enabled' = e
    /\ cache_data' = IF ~e THEN << >> ELSE cache_data
    /\ heap' = IF ~e THEN << >> ELSE heap
    /\ last' = [NoCall EXCEPT !.op = "configure", !.was_enabled = enabled,
                              !.stored = Stored(heap)]
    /\ UNCHANGED << cache_lock, th, feed >>

UpdateCache(entity_id, end_time) ==
    LET u == update_cache(cache_data, heap, enabled, entity_id, feed)
    IN /\ Stored(u.hp) <= MaxStored
       /\ cache_data' = u.cd
       /\ heap' = u.hp
       /\ last' = [NoCall EXCEPT !.op = "update_cache", !.entity_id = entity_id,
                                 !.end_time = end_time,
                                 !.was_enabled = enabled,
                                 !.warm = lower(entity_id) \in DOMAIN cache_data,
                                 !.stored = StoredLen(entity_id),
                                 !.fetched = Size(feed),
                                 !.items = Len(Normalize(feed).items),
                                 !.offered =
                                     Len(WithTimestamp(Normalize(feed).items))]
       /\ feed' = PyList(<< >>)
       /\ UNCHANGED << enabled, cache_lock, th >>

GetOrFetch(entity_id, start_time, end_time, minimal, raises) ==
    LET g == get_or_fetch(cache_data, heap, enabled, entity_id, start_time,
                          end_time, minimal, [raises |-> raises, data |-> feed])
    IN /\ start_time <= end_time
       /\ Stored(g.hp) <= MaxStored
       /\ cache_data' = g.cd
       /\ heap' = g.hp
       /\ last' = [op |-> "get_or_fetch", entity_id |-> entity_id,
                   start_time |-> start_time, end_time |-> end_time,
                   minimal |-> minimal,
                   was_enabled |-> enabled,
                   warm |-> lower(entity_id) \in DOMAIN cache_data,
                   raised |-> g.raised, ret |-> g.ret, calls |-> g.calls,
                   stored |-> StoredLen(entity_id),
                   fetched |-> IF raises THEN 0 ELSE Size(feed),
                   fetch_raised |-> raises, items |-> 0, offered |-> 0]
       /\ feed' = PyList(<< >>)
       /\ UNCHANGED << enabled, cache_lock, th >>

Next ==
    \/ \E x \in Elements : FeedAppend(x)
    \/ FeedWrap
    \/ FeedNone
    \/ \E e \in BOOLEAN : Configure(e)
    \/ \E entity_id \in Entities, end_time \in Times :
          UpdateCache(entity_id, end_time)
    \/ \E entity_id \in Entities, start_time \in Times, end_time \in Times,
          minimal \in BOOLEAN, raises \in BOOLEAN :
          GetOrFetch(entity_id, start_time, end_time, minimal, raises)

Spec == Init /\ [][Next]_vars

\* ============================================================== threads
\* The same calls made by concurrent threads, one step per access to the
\* shared state: configure and the enabled checks of lines 41 and 78 run
\* without the lock, the with-blocks of lines 44 and 85 hold it.
ThreadEntities == { "Sensor.A", "sensor.b" }
ThreadBatches == { PyNone, PyList(<< PyStr >>), PyList(<< PyDict(LcIso(1, 1)) >>),
                   PyList(<< PyDict(LcIso(1, 0)) >>) }
ThreadTimes == { 0, 1 }

\* objects still referenced by the mapping or by a local of a running call
Live(cd, thr) ==
    { cd[k] : k \in DOMAIN cd }
        \cup { thr[t].gof_entry : t \in Threads } \cup { thr[t].uc_entry : t \in Threads }
Collect(cd, hp, thr) == [r \in (DOMAIN hp) \cap Live(cd, thr) |-> hp[r]]

\* threading.RLock: free, or already held by the acquiring thread
CanAcquireAlways(t) == TRUE

\* a plain Lock in place of the RLock
CanAcquireNotReentrant(t) == cache_lock.owner = NoThread

CanAcquire(t) == cache_lock.owner \in { NoThread, t }

Acquired(t) == [owner |-> t, count |-> cache_lock.count + 1]
Released ==
    IF cache_lock.count = 1 THEN [owner |-> NoThread, count |-> 0]
    ELSE [cache_lock EXCEPT !.count = @ - 1]
Unlocked == [owner |-> NoThread, count |-> 0]

Finish(t, cd, hp, lock) ==
    LET thr == [th EXCEPT ![t] = IdleThread]
    IN /\ th' = thr
       /\ cache_data' = cd
       /\ heap' = Collect(cd, hp, thr)
       /\ cache_lock' = lock

Goto(t, pc, cd, hp) ==
    LET thr == [th EXCEPT ![t].pc = pc]
    IN /\ th' = thr
       /\ cache_data' = cd
       /\ heap' = Collect(cd, hp, thr)

\* line 21
TConfigure(t, e) ==
    /\ th[t].pc = "idle"
    /\ enabled' = e
    /\ th' = [th EXCEPT ![t] =
                 IF e THEN IdleThread
                 ELSE [IdleThread EXCEPT !.op = "configure", !.pc = "clear"]]
    /\ UNCHANGED << cache_data, heap, cache_lock, last, feed >>

\* line 23
TClear(t) ==
    /\ th[t].pc = "clear"
    /\ Finish(t, << >>, heap, cache_lock)
    /\ UNCHANGED << enabled, last, feed >>

\* update_cache, lines 76-79: the checks made before the lock is taken
TUpdateCheck(t, entity_id, new_data) ==
    /\ th[t].pc = "idle"
    /\ th' = [th EXCEPT ![t] =
                 IF ~enabled \/ ~Truthy(new_data) THEN IdleThread
                 ELSE [IdleThread EXCEPT !.pc = "uc_lock", !.op = "update_cache",
                                         !.entity_id = entity_id,
                                         !.new_data = new_data]]
    /\ UNCHANGED << cache_data, heap, enabled, cache_lock, last, feed >>

\* get_or_fetch, line 41
TGetCheck(t, entity_id, start_time, end_time) ==
    /\ th[t].pc = "idle"
    /\ start_time <= end_time
    /\ th' = [th EXCEPT ![t] =
                 [IdleThread EXCEPT !.pc = IF enabled THEN "gof_lock" ELSE "direct",
                                    !.op = "get_or_fetch", !.entity_id = entity_id,
                                    !.start_time = start_time,
                                    !.end_time = end_time]]
    /\ UNCHANGED << cache_data, heap, enabled, cache_lock, last, feed >>

\* line 42: fetch_func returns or raises, the lock is not involved
TDirectFetch(t) ==
    /\ th[t].pc = "direct"
    /\ Finish(t, cache_data, heap, cache_lock)
    /\ UNCHANGED << enabled, last, feed >>

\* lines 44-46: enter the with-block and look the entry up
TGetLock(t) ==
    /\ th[t].pc = "gof_lock"
    /\ CanAcquire(t)
    /\ cache_lock' = Acquired(t)
    /\ th' = [th EXCEPT ![t].pc = "gof_call",
                        ![t].gof_entry =
                            IF lower(th[t].entity_id) \in DOMAIN cache_data
                            THEN cache_data[lower(th[t].entity_id)] ELSE NoRef]
    /\ UNCHANGED << cache_data, heap, enabled, last, feed >>

\* lines 56-60 and 50: read latest and call fetch_func
TFetchCall(t) ==
    /\ th[t].pc = "gof_call"
    /\ th' = [th EXCEPT ![t].pc = "fetching"]
    /\ UNCHANGED << cache_data, heap, enabled, cache_lock, last, feed >>

\* lines 50-51: fetch_func returns
TFetchReturn(t, new_data) ==
    /\ th[t].pc = "fetching"
    /\ th' = [th EXCEPT ![t].new_data = new_data,
                        ![t].pc = IF Truthy(new_data) THEN "uc_check" ELSE "tail"]
    /\ UNCHANGED << cache_data, heap, enabled, cache_lock, last, feed >>

\* line 50: fetch_func raises and the with-block of line 44 is left
TFetchRaise(t) ==
    /\ th[t].pc = "fetching"
    /\ Finish(t, cache_data, heap, Released)
    /\ UNCHANGED << enabled, last, feed >>

\* lines 52 and 78-83: update_cache called from fetch_and_update
TNestedCheck(t) ==
    /\ th[t].pc = "uc_check"
    /\ th' = [th EXCEPT ![t].pc = IF ~enabled THEN "tail" ELSE "uc_lock"]
    /\ UNCHANGED << cache_data, heap, enabled, cache_lock, last, feed >>

\* line 85
TUpdateLock(t) ==
    /\ th[t].pc = "uc_lock"
    /\ CanAcquire(t)
    /\ cache_lock' = Acquired(t)
    /\ th' = [th EXCEPT ![t].pc = "uc_ensure"]
    /\ UNCHANGED << cache_data, heap, enabled, last, feed >>

\* lines 88-89
TUpdateEnsure(t) ==
    LET entity_key == lower(th[t].entity_id)
        ref == NewRef(heap)
    IN /\ th[t].pc = "uc_ensure"
       /\ IF entity_key \in DOMAIN cache_data
          THEN Goto(t, "uc_lookup", cache_data, heap)
          ELSE Goto(t, "uc_lookup", cache_data @@ (entity_key :> ref),
                    heap @@ (ref :> [data |-> << >>, latest |-> None]))
       /\ UNCHANGED << enabled, cache_lock, last, feed >>

\* line 91: the subscript raises KeyError when the key has just been cleared,
\* and the exception leaves every with-block of the call
TUpdateLookup(t) ==
    LET entity_key == lower(th[t].entity_id)
    IN /\ th[t].pc = "uc_lookup"
       /\ IF entity_key \in DOMAIN cache_data
          THEN /\ th' = [th EXCEPT ![t].pc = "uc_merge",
                                   ![t].uc_entry = cache_data[entity_key]]
               /\ UNCHANGED << cache_data, heap, cache_lock >>
          ELSE Finish(t, cache_data, heap, Unlocked)
       /\ UNCHANGED << enabled, last, feed >>

\* lines 92-113 on the data as rebound by line 83, and the end of the
\* with-block of line 85
TUpdateMerge(t) ==
    LET ref == th[t].uc_entry
        hp == [heap EXCEPT ![ref] = MergeEntry(heap[ref], Normalize(th[t].new_data))]
    IN /\ th[t].pc = "uc_merge"
       /\ IF th[t].op = "update_cache"
          THEN Finish(t, cache_data, hp, Released)
          ELSE /\ th' = [th EXCEPT ![t].pc = "tail", ![t].uc_entry = NoRef]
               /\ cache_data' = cache_data
               /\ heap' = Collect(cache_data, hp, th')
               /\ cache_lock' = Released
       /\ UNCHANGED << enabled, last, feed >>

\* a tail that removes the key of an entry it has pruned to empty
TGetTailDropsEmpty(t) ==
    LET ref == th[t].gof_entry
        pruned == Prune(heap[ref].data, th[t].start_time)
    IN /\ th[t].pc = "tail"
       /\ IF ref = NoRef
          THEN Finish(t, cache_data, heap, Released)
          ELSE Finish(t,
                      IF pruned = << >>
                      THEN [k \in { j \in DOMAIN cache_data : cache_data[j] # ref }
                               |-> cache_data[k]]
                      ELSE cache_data,
                      [heap EXCEPT ![ref].data = pruned],
                      Released)
       /\ UNCHANGED << enabled, last, feed >>

\* lines 56-57 and 62-74: return the fetched data, or prune and return
TGetTail(t) ==
    LET ref == th[t].gof_entry
    IN /\ th[t].pc = "tail"
       /\ IF ref = NoRef
          THEN Finish(t, cache_data, heap, Released)
          ELSE Finish(t, cache_data,
                      [heap EXCEPT ![ref].data = Prune(heap[ref].data, th[t].start_time)],
                      Released)
       /\ UNCHANGED << enabled, last, feed >>

ThreadNext ==
    \E t \in Threads :
        \/ \E e \in BOOLEAN : TConfigure(t, e)
        \/ TClear(t)
        \/ \E entity_id \in ThreadEntities, new_data \in ThreadBatches :
              TUpdateCheck(t, entity_id, new_data)
        \/ \E entity_id \in ThreadEntities, start_time \in ThreadTimes,
              end_time \in ThreadTimes :
              TGetCheck(t, entity_id, start_time, end_time)
        \/ TDirectFetch(t)
        \/ TGetLock(t)
        \/ TFetchCall(t)
        \/ \E new_data \in ThreadBatches : TFetchReturn(t, new_data)
        \/ TFetchRaise(t)
        \/ TNestedCheck(t)
        \/ TUpdateLock(t)
        \/ TUpdateEnsure(t)
        \/ TUpdateLookup(t)
        \/ TUpdateMerge(t)
        \/ TGetTail(t)

ThreadSpec == Init /\ [][ThreadNext]_vars

\* The calls of ThreadSpec on one entity and one instant, with data that is
\* empty or one record: what a call waits for does not depend on the data.
FairEntities == { "Sensor.A" }
FairBatches == { PyNone, PyList(<< PyDict(LcIso(1, 0)) >>) }
FairTimes == { 1 }

\* A call that has begun goes on: the steps of a running thread that do not
\* wait for the lock, the return or raise of fetch_func among them.
Running(t) ==
    \/ TClear(t)
    \/ TDirectFetch(t)
    \/ TFetchCall(t)
    \/ \E new_data \in FairBatches : TFetchReturn(t, new_data)
    \/ TFetchRaise(t)
    \/ TNestedCheck(t)
    \/ TUpdateEnsure(t)
    \/ TUpdateLookup(t)
    \/ TUpdateMerge(t)
    \/ TGetTail(t)
\* entering the with-blocks of lines 44 and 85
Acquiring(t) == TGetLock(t) \/ TUpdateLock(t)

\* Every running thread keeps being scheduled, and a thread that finds the
\* lock free again and again gets it in the end.
Fairness ==
    \A t \in Threads : WF_vars(Running(t)) /\ SF_vars(Acquiring(t))

FairThreadNext ==
    \E t \in Threads :
        \/ \E e \in BOOLEAN : TConfigure(t, e)
        \/ \E entity_id \in FairEntities, new_data \in FairBatches :
              TUpdateCheck(t, entity_id, new_data)
        \/ \E entity_id \in FairEntities, start_time \in FairTimes,
              end_time \in FairTimes :
              TGetCheck(t, entity_id, start_time, end_time)
        \/ Running(t)
        \/ Acquiring(t)

FairThreadSpec == Init /\ [][FairThreadNext]_vars /\ Fairness

\* ================================================================ claims
TimestampsOf(data) == [i \in 1..Len(data) |-> get_timestamp(data[i])]
Count(data, x) == Cardinality({ i \in 1..Len(data) : data[i] = x })
MaxOf(S) == CHOOSE m \in S : \A n \in S : n <= m
\* the records a batch offers: its elements, or those of its first element
\* when that is a list
Offered(v) ==
    LET items == IF v.kind # "list" THEN << >>
                 ELSE IF v.items # << >> /\ v.items[1].kind = "list"
                 THEN v.items[1].items ELSE v.items
    IN SelectSeq(items, LAMBDA x : get_timestamp(x) # None)
StrictlyAscending(data) ==
    \A i, j \in 1..Len(data) :
        (i < j /\ get_timestamp(data[i]) # None /\ get_timestamp(data[j]) # None)
            => get_timestamp(data[i]) < get_timestamp(data[j])

\* C1: in every reachable state no two items stored for an entity have the
\* same timestamp, whatever batches update_cache and get_or_fetch merged.
C1_NoDuplicateTimestamps ==
    \A k \in DOMAIN cache_data :
        \A i, j \in 1..Len(Entry(k).data) :
            i # j => get_timestamp(Entry(k).data[i]) # get_timestamp(Entry(k).data[j])

\* C2 as claimed: latest is the maximum stored timestamp, and is absent
\* exactly when nothing is stored.
C2_LatestIsMaximum ==
    \A k \in DOMAIN cache_data :
        /\ (Entry(k).latest = None) <=> (Entry(k).data = << >>)
        /\ Entry(k).data # << >> =>
              Entry(k).latest =
                  MaxOf({ get_timestamp(Entry(k).data[i]) : i \in 1..Len(Entry(k).data) })

\* C2 amended: latest is at least the timestamp of every stored item, and is
\* absent only when nothing is stored.
C2_LatestBoundsItems ==
    \A k \in DOMAIN cache_data :
        /\ Entry(k).latest = None => Entry(k).data = << >>
        /\ \A i \in 1..Len(Entry(k).data) :
              /\ get_timestamp(Entry(k).data[i]) # None
              /\ get_timestamp(Entry(k).data[i]) <= Entry(k).latest

\* a get_or_fetch has pruned an entry to empty and its latest is still set
C2_Witness ==
    /\ last.op = "get_or_fetch" /\ last.warm /\ ~last.raised
    /\ last.stored > 0
    /\ lower(last.entity_id) \in DOMAIN cache_data
    /\ Entry(lower(last.entity_id)).data = << >>
    /\ Entry(lower(last.entity_id)).latest # None

\* C3: every entry's stored sequence is sorted ascending by timestamp:
\* adjacent items are in non-decreasing timestamp order.
C3_SortedAscending ==
    \A k \in DOMAIN cache_data :
        \A i \in 1..(Len(Entry(k).data) - 1) :
            get_timestamp(Entry(k).data[i]) <= get_timestamp(Entry(k).data[i + 1])

\* a merge has grown an entry to three items at more than one instant
C3_Witness ==
    /\ last.op \in {"update_cache", "get_or_fetch"} /\ last.was_enabled
    /\ lower(last.entity_id) \in DOMAIN cache_data
    /\ Len(Entry(lower(last.entity_id)).data) = 3
    /\ Len(Entry(lower(last.entity_id)).data) > last.stored
    /\ get_timestamp(Entry(lower(last.entity_id)).data[1])
          < get_timestamp(Entry(lower(last.entity_id)).data[3])

\* C4: a list returned by get_or_fetch on an enabled cache is ascending by
\* timestamp with no timestamp twice, on cold and on warm calls.
C4_ReturnSortedDeduplicated ==
    (last.op = "get_or_fetch" /\ last.was_enabled /\ ~last.raised
        /\ last.ret.kind = "list")
    => StrictlyAscending(last.ret.items)

\* ---------------------------------------------------- get_or_fetch steps
LastKey == lower(last.entity_id)
WarmReturn ==
    /\ last.op = "get_or_fetch" /\ last.was_enabled /\ last.warm /\ ~last.raised
ColdCall ==
    /\ last.op = "get_or_fetch" /\ last.was_enabled /\ ~last.warm
InWindow(x, start_time, end_time) ==
    start_time <= get_timestamp(x) /\ get_timestamp(x) <= end_time
AtOrAfter(data, start_time) ==
    SelectSeq(data, LAMBDA x : get_timestamp(x) >= start_time)
UpTo(data, end_time) ==
    SelectSeq(data, LAMBDA x : get_timestamp(x) # None /\ get_timestamp(x) <= end_time)
EntryAfter(k) == heap'[cache_data'[k]]
InRange(data) == { data[i] : i \in 1..Len(data) }

\* C6 as claimed: a warm get_or_fetch fetches [entry.latest, end_time],
\* returns the stored items up to end_time as they are after the merge, and
\* every fetched record inside [start_time, end_time] is in what it returns.
C6_WarmReturnsEveryFetched ==
    [][ WarmReturn' =>
          /\ last'.calls = << << Entry(LastKey').latest, last'.end_time,
                                 last'.minimal >> >>
          /\ LastKey' \in DOMAIN cache_data'
          /\ last'.ret = PyList(UpTo(EntryAfter(LastKey').data, last'.end_time))
          /\ \A i \in 1..Len(Offered(feed)) :
                InWindow(Offered(feed)[i], last'.start_time, last'.end_time)
                    => Offered(feed)[i] \in InRange(last'.ret.items) ]_vars

\* C6 amended: as claimed, except that a fetched record whose timestamp was
\* already stored is not merged: the return then holds the stored record
\* with that timestamp in its place.
C6_WarmReturnsFromStorage ==
    [][ WarmReturn' =>
          /\ last'.calls = << << Entry(LastKey').latest, last'.end_time,
                                 last'.minimal >> >>
          /\ LastKey' \in DOMAIN cache_data'
          /\ last'.ret = PyList(UpTo(EntryAfter(LastKey').data, last'.end_time))
          /\ \A i \in 1..Len(Offered(feed)) :
                InWindow(Offered(feed)[i], last'.start_time, last'.end_time)
                    => IF \E x \in InRange(Entry(LastKey').data) :
                             get_timestamp(x) = get_timestamp(Offered(feed)[i])
                       THEN \E x \in InRange(Entry(LastKey').data)
                                     \cap InRange(last'.ret.items) :
                               get_timestamp(x) = get_timestamp(Offered(feed)[i])
                       ELSE Offered(feed)[i] \in InRange(last'.ret.items) ]_vars

\* a warm call fetched from latest, not from its own start_time, merged a
\* new record and returned it
C6_Witness ==
    /\ WarmReturn
    /\ last.calls[1][1] # last.start_time
    /\ Len(Entry(LastKey).data) > last.stored
    /\ Len(last.ret.items) > last.stored

\* C7: after a warm get_or_fetch nothing stored is older than start_time,
\* everything at or after start_time (old or just merged) is still stored,
\* and the return is the stored items up to end_time, in stored order.
C7_PruneAndReturn ==
    [][ WarmReturn' =>
          /\ \A i \in 1..Len(EntryAfter(LastKey').data) :
                get_timestamp(EntryAfter(LastKey').data[i]) >= last'.start_time
          /\ \A x \in InRange(Entry(LastKey').data) \cup InRange(Offered(feed)) :
                get_timestamp(x) >= last'.start_time
                    => \E y \in InRange(EntryAfter(LastKey').data) :
                          get_timestamp(y) = get_timestamp(x)
          /\ \A x \in InRange(Entry(LastKey').data) :
                get_timestamp(x) >= last'.start_time
                    => Count(EntryAfter(LastKey').data, x) >= Count(Entry(LastKey').data, x)
          /\ last'.ret = PyList(UpTo(EntryAfter(LastKey').data, last'.end_time)) ]_vars

\* a warm call dropped an old item, kept two and returned only one of them
C7_Witness ==
    /\ WarmReturn
    /\ last.stored > Len(Entry(LastKey).data)
    /\ Len(Entry(LastKey).data) = 2
    /\ Len(last.ret.items) = 1

\* C8: a cold get_or_fetch calls fetch_func once, with [start_time,
\* end_time]; non-empty data creates an entry that holds exactly the
\* well-formed fetched records, with latest their maximum timestamp; the
\* call returns the fetched data as it is.
C8_ColdFetch ==
    [][ ColdCall' =>
          /\ last'.calls = << << last'.start_time, last'.end_time,
                                 last'.minimal >> >>
          /\ ~last'.raised =>
                /\ last'.ret = feed
                /\ ~Truthy(feed) => cache_data' = cache_data /\ heap' = heap
                /\ Truthy(feed) =>
                      /\ LastKey' \in DOMAIN cache_data'
                      /\ \A x \in Elements :
                            Count(EntryAfter(LastKey').data, x) = Count(Offered(feed), x)
                      /\ Len(EntryAfter(LastKey').data) = Len(Offered(feed))
                      /\ EntryAfter(LastKey').latest =
                            IF Offered(feed) = << >> THEN None
                            ELSE MaxOf({ get_timestamp(x) : x \in InRange(Offered(feed)) })
      ]_vars

\* a cold call was handed two records, latest first, returned them in that
\* order and left both stored
C8_Witness ==
    /\ ColdCall /\ ~last.raised
    /\ last.ret.kind = "list" /\ Len(last.ret.items) = 2
    /\ get_timestamp(last.ret.items[1]) > get_timestamp(last.ret.items[2])
    /\ get_timestamp(last.ret.items[2]) # None
    /\ LastKey \in DOMAIN cache_data
    /\ Len(Entry(LastKey).data) = 2
    /\ Entry(LastKey).latest = get_timestamp(last.ret.items[1])

\* C10: when fetch_func raises, get_or_fetch raises to its caller after that
\* one call of fetch_func, and the mapping, every entry and the enabled flag
\* are as they were before the call.
C10_FetchRaiseLeavesState ==
    [][ (last'.op = "get_or_fetch" /\ last'.fetch_raised) =>
             /\ last'.raised
             /\ Len(last'.calls) = 1
             /\ cache_data' = cache_data
             /\ heap' = heap
             /\ enabled' = enabled ]_vars

\* a warm call raised and the entry still holds an item older than the
\* call's start_time
C10_Witness ==
    /\ last.op = "get_or_fetch" /\ last.raised /\ last.was_enabled /\ last.warm
    /\ LastKey \in DOMAIN cache_data
    /\ Entry(LastKey).data # << >>
    /\ get_timestamp(Entry(LastKey).data[1]) < last.start_time

\* ------------------------------------------------------------- the lock
\* t is inside a with-block on cache_lock
InWith(t) ==
    \/ th[t].pc \in { "gof_call", "fetching", "uc_check", "tail", "uc_ensure",
                      "uc_lookup", "uc_merge" }
    \/ th[t].pc = "uc_lock" /\ th[t].op = "get_or_fetch"

\* C5: while a thread holds the lock, no step of another thread changes the
\* entity mapping or an entry.
C5_LockSerializesAccess ==
    [][ \A t \in Threads :
          (cache_lock.owner = t /\ th'[t] = th[t])
              => (cache_data' = cache_data /\ heap' = heap) ]_vars

\* C9: while a thread is in the locked part of get_or_fetch, the call of
\* fetch_func included, no other thread is inside a with-block, at most one
\* enabled-path call of fetch_func is in progress, and no step of another
\* thread merges into or prunes an entry.
C9_FetchHoldsLock ==
    /\ [](\A t, u \in Threads :
            (t # u /\ th[t].op = "get_or_fetch" /\ InWith(t)) => ~InWith(u))
    /\ [](Cardinality({ t \in Threads : th[t].pc = "fetching" }) <= 1)
    /\ [][ \A t \in Threads :
             (th[t].op = "get_or_fetch" /\ InWith(t) /\ th'[t] = th[t])
                 => \A r \in (DOMAIN heap) \cap (DOMAIN heap') : heap'[r] = heap[r]
       ]_vars

\* a thread is in fetch_func for one entity, with something stored, while
\* another waits at the lock for a different entity
C9_Witness ==
    \E t, u \in Threads :
        /\ th[t].pc = "fetching"
        /\ th[u].pc \in { "gof_lock", "uc_lock" }
        /\ lower(th[t].entity_id) # lower(th[u].entity_id)
        /\ \E r \in DOMAIN heap : heap[r].data # << >>

\* C11: get_or_fetch on a disabled cache calls fetch_func with the caller's
\* (start_time, end_time, minimal), returns what fetch_func returns, and
\* leaves the mapping, the entries and the flag as they were.
C11_DisabledPassThrough ==
    [][ (last'.op = "get_or_fetch" /\ ~last'.was_enabled) =>
          /\ last'.calls = << << last'.start_time, last'.end_time,
                                 last'.minimal >> >>
          /\ last'.raised = last'.fetch_raised
          /\ ~last'.fetch_raised => last'.ret = feed
          /\ cache_data' = cache_data
          /\ heap' = heap
          /\ enabled' = enabled ]_vars

\* a disabled cache passed minimal = TRUE through and returned the two
\* values fetch_func gave, with nothing cached
C11_Witness ==
    /\ last.op = "get_or_fetch" /\ ~last.was_enabled /\ ~last.raised
    /\ last.minimal /\ last.calls[1][3]
    /\ last.ret.kind = "list" /\ Len(last.ret.items) = 2
    /\ cache_data = << >>

\* C12: right after an update_cache(e, D, t), a second update_cache(e, D, t)
\* changes nothing: the entry's length, contents and latest stay the same.
C12_MergeIdempotent ==
    [][ (last'.op = "update_cache" /\ last'.was_enabled /\ Truthy(feed)) =>
          LET again == update_cache(cache_data', heap', enabled',
                                    last'.entity_id, feed)
          IN /\ Len(again.hp[again.cd[LastKey']].data)
                   = Len(EntryAfter(LastKey').data)
             /\ again.cd = cache_data'
             /\ again.hp = heap' ]_vars

\* an update_cache has just stored two items
C12_Witness ==
    /\ last.op = "update_cache" /\ last.was_enabled
    /\ LastKey \in DOMAIN cache_data
    /\ Len(Entry(LastKey).data) = last.stored + 2

\* C13: configure(false) leaves the flag false and the mapping empty,
\* whatever was cached and whatever the flag was; configure(true) leaves
\* the entries as they were.
C13_ConfigureClears ==
    [][ last'.op = "configure" =>
          /\ ~enabled' => cache_data' = << >>
          /\ enabled' => (cache_data' = cache_data /\ heap' = heap) ]_vars

\* configure(false) has just emptied a mapping that held items
C13_Witness ==
    /\ last.op = "configure" /\ last.was_enabled /\ ~enabled
    /\ last.stored > 0
    /\ cache_data = << >>

\* ------------------------------------------------------ update_cache steps
UpdateStep ==
    /\ last.op = "update_cache" /\ last.was_enabled /\ last.fetched > 0
\* the timestamps stored for a key before the step
StoredTimestamps(k) ==
    IF k \in DOMAIN cache_data
    THEN { get_timestamp(x) : x \in InRange(Entry(k).data) } ELSE {}
StoredBefore(k) == IF k \in DOMAIN cache_data THEN Entry(k).data ELSE << >>
\* the items of a list that are records with a timestamp not yet stored for k
NewFor(k, items) ==
    SelectSeq(items, LAMBDA x : /\ x.kind = "dict"
                                /\ get_timestamp(x) # None
                                /\ get_timestamp(x) \notin StoredTimestamps(k))
\* after the step the entry of k holds what it held and, once each, items
AddedExactly(k, items) ==
    /\ k \in DOMAIN cache_data'
    /\ Len(EntryAfter(k).data) = Len(StoredBefore(k)) + Len(items)
    /\ \A x \in InRange(EntryAfter(k).data) \cup InRange(StoredBefore(k)) \cup InRange(items) :
          Count(EntryAfter(k).data, x) = Count(StoredBefore(k), x) + Count(items, x)

\* C14: update_cache drops a malformed item (not a dict, no timestamp, or an
\* unparseable one) without raising and still inserts every well-formed
\* item of the batch whose timestamp is not stored yet; so every stored item
\* has a parseable timestamp.
C14_MalformedDropped ==
    /\ [](\A k \in DOMAIN cache_data :
            \A i \in 1..Len(Entry(k).data) : get_timestamp(Entry(k).data[i]) # None)
    /\ [][ (UpdateStep' /\ Truthy(feed) /\ feed.items[1].kind # "list") =>
             /\ ~last'.raised
             /\ AddedExactly(LastKey', NewFor(LastKey', feed.items)) ]_vars

\* an update_cache looped over two items, one of them without a timestamp,
\* and stored the other
C14_Witness ==
    /\ UpdateStep
    /\ last.items = 2 /\ last.offered = 1
    /\ Len(Entry(LastKey).data) = last.stored + 1

C15_EntriesPersist ==
    [][ /\ \A k \in DOMAIN cache_data' \ DOMAIN cache_data :
              \E t \in Threads : /\ th[t].pc = "uc_ensure"
                                 /\ lower(th[t].entity_id) = k
                                 /\ Truthy(th[t].new_data)
        /\ (DOMAIN cache_data \ DOMAIN cache_data' # {}) =>
              \E t \in Threads : /\ th[t].pc = "clear"
                                 /\ th[t].op = "configure"
                                 /\ th'[t].pc = "idle" ]_vars

\* no call is running and the mapping holds an entry that a prune has emptied
C15_Witness ==
    /\ \A t \in Threads : th[t].pc = "idle"
    /\ \E k \in DOMAIN cache_data :
          Entry(k).data = << >> /\ Entry(k).latest # None

\* C17: whenever the enabled flag is false and no thread is inside a
\* configure, update_cache or get_or_fetch call, the mapping is empty.
C17_DisabledMeansEmpty ==
    (~enabled /\ \A t \in Threads : th[t].pc = "idle") => cache_data = << >>

\* C18: every call of fetch_func made by get_or_fetch on an enabled cache
\* is given a timestamp as its start argument, never None.
C18_FetchStartPresent ==
    (last.op = "get_or_fetch" /\ last.was_enabled) =>
        \A i \in 1..Len(last.calls) : last.calls[i][1] # None

\* C20: in every step, of update_cache and get_or_fetch in particular, an
\* entry that stays in the mapping and has a latest keeps one, and the new
\* latest is greater than or equal to the old one.
C20_LatestNeverDecreases ==
    [][ \A k \in DOMAIN cache_data \cap DOMAIN cache_data' :
            Entry(k).latest # None =>
                /\ EntryAfter(k).latest # None
                /\ EntryAfter(k).latest >= Entry(k).latest ]_vars

\* update_cache put one record into an emptied entry whose latest is later
\* than the record's timestamp
C20_Witness ==
    /\ UpdateStep /\ last.warm /\ last.stored = 0
    /\ last.items = 1 /\ last.offered = 1
    /\ Len(Entry(LastKey).data) = 1
    /\ get_timestamp(Entry(LastKey).data[1]) < Entry(LastKey).latest

====
